---- MODULE Spec2Model ----
(***************************************************************************)
(* Request execution core of the ai_agent Python SDK: AgentClient.request  *)
(* (client.py), retry() with exponential backoff (retry.py) and the        *)
(* ConnectionPool (pool.py), as run by one asyncio event loop.  Coroutines *)
(* interleave only at their suspension points: waiting for a connector     *)
(* slot, waiting for the response, and the backoff sleep.                  *)
(***************************************************************************)
EXTENDS Integers, Sequences, FiniteSets, TLC

\* ------------------------------------------------------------------ bounds
NumCalls == 2
MaxRetries == 2
ConcurrentRetries == 1
MaxConnections == 2
MaxAttempt == 4
MaxSeqCalls == 3

\* -------------------------------------------------------- program constants
InitialDelay == 100
MaxDelay == 10000

Procs == 1..NumCalls

\* Python's None, for the fields that hold integers, strings or records.
NoSession == 0
NoStatus == 0
NoDetails == "None"
NoError == [kind |-> "None", message |-> "", code |-> "", status_code |-> NoStatus,
            details |-> NoDetails, att |-> 0]
NoLastError == [message |-> "None"]
NoResult == [returned |-> FALSE, unwrapped |-> FALSE, payload |-> "None", att |-> 0]

\* ------------------------------------------------------------- arithmetic
RECURSIVE Pow(_, _)
Pow(b, e) ==
    IF e <= 0 THEN 1 ELSE b * Pow(b, e - 1)

RECURSIVE GCD(_, _)
GCD(a, b) ==
    IF b = 0 THEN a ELSE GCD(b, a % b)

\* An exact fraction stands for the float average_latency, whose terms are
\* time measurements.
Rat(n, d) ==
    LET g == GCD(n, d) IN
    IF g = 0 THEN [num |-> 0, den |-> 1] ELSE [num |-> n \div g, den |-> d \div g]

Min(a, b) ==
    IF a <= b THEN a ELSE b

\* ------------------------------------------------------------ floats
\* The rates of ClientMetrics are Python floats, computed here as Python
\* computes them: IEEE-754 doubles, each operation rounded to nearest-even.
\* Natural numbers of any size: their digits to the base LimbBase, the least
\* significant first, without leading zero digits (<<>> is 0).
LimbBits == 10

LimbBase == 2 ^ LimbBits

RECURSIVE BigNorm(_)
BigNorm(x) ==
    IF x = <<>> THEN <<>>
    ELSE IF x[Len(x)] = 0 THEN BigNorm(SubSeq(x, 1, Len(x) - 1))
    ELSE x

RECURSIVE BigFromInt(_)
BigFromInt(n) ==
    IF n = 0 THEN <<>> ELSE <<n % LimbBase>> \o BigFromInt(n \div LimbBase)

\* x * k + carry, for k and carry below 2^20
RECURSIVE BigMulSmall(_, _, _)
BigMulSmall(x, k, carry) ==
    IF x = <<>> THEN BigFromInt(carry)
    ELSE <<(Head(x) * k + carry) % LimbBase>>
             \o BigMulSmall(Tail(x), k, (Head(x) * k + carry) \div LimbBase)

\* The digits of x \div n, leading zeros included, for n below 2^20, given the
\* remainder `r` that the digits above position i left.
RECURSIVE BigDivDigits(_, _, _, _)
BigDivDigits(x, n, i, r) ==
    IF i = 0 THEN <<>>
    ELSE BigDivDigits(x, n, i - 1, (r * LimbBase + x[i]) % n)
             \o <<(r * LimbBase + x[i]) \div n>>

RECURSIVE BigModSmall(_, _, _, _)
BigModSmall(x, n, i, r) ==
    IF i = 0 THEN r ELSE BigModSmall(x, n, i - 1, (r * LimbBase + x[i]) % n)

BigDivSmall(x, n) ==
    [q |-> BigNorm(BigDivDigits(x, n, Len(x), 0)), r |-> BigModSmall(x, n, Len(x), 0)]

RECURSIVE BigAdd(_, _, _)
BigAdd(x, y, carry) ==
    IF x = <<>> /\ y = <<>> THEN BigFromInt(carry)
    ELSE LET a == IF x = <<>> THEN 0 ELSE Head(x)
             b == IF y = <<>> THEN 0 ELSE Head(y)
         IN  <<(a + b + carry) % LimbBase>>
                 \o BigAdd(IF x = <<>> THEN x ELSE Tail(x),
                           IF y = <<>> THEN y ELSE Tail(y),
                           (a + b + carry) \div LimbBase)

\* x <= y, comparing from the most significant digit down
RECURSIVE BigLeqFrom(_, _, _)
BigLeqFrom(x, y, i) ==
    IF i = 0 THEN TRUE
    ELSE IF x[i] # y[i] THEN x[i] < y[i]
    ELSE BigLeqFrom(x, y, i - 1)

BigLeq(x, y) ==
    IF Len(x) # Len(y) THEN Len(x) < Len(y) ELSE BigLeqFrom(x, y, Len(x))

RECURSIVE IntBitLen(_)
IntBitLen(n) ==
    IF n = 0 THEN 0 ELSE 1 + IntBitLen(n \div 2)

BigBitLen(x) ==
    IF x = <<>> THEN 0 ELSE (Len(x) - 1) * LimbBits + IntBitLen(x[Len(x)])

\* x * 2^k
BigShiftLeft(x, k) ==
    IF x = <<>> THEN <<>>
    ELSE [i \in 1..(k \div LimbBits) |-> 0] \o BigMulSmall(x, 2 ^ (k % LimbBits), 0)

\* x \div 2^k, and whether a nonzero bit was shifted out
BigShiftRight(x, k) ==
    LET drop == Min(k \div LimbBits, Len(x))
        rest == BigDivSmall(SubSeq(x, drop + 1, Len(x)), 2 ^ (k % LimbBits))
    IN  [q |-> rest.q,
         lost |-> rest.r # 0 \/ \E i \in 1..drop : x[i] # 0]

BigOdd(x) ==
    x # <<>> /\ x[1] % 2 = 1

\* An IEEE-754 double: m * 2^e with m of exactly MantissaBits bits, or zero.
MantissaBits == 53

FloatZero ==
    [m |-> <<>>, e |-> 0]

\* The double nearest to x * 2^e (a little more if `sticky`), ties to even.
RoundToDouble(x, e, sticky) ==
    LET len == BigBitLen(x) IN
    IF len = 0 THEN FloatZero
    ELSE IF len <= MantissaBits
    THEN [m |-> BigShiftLeft(x, MantissaBits - len), e |-> e - (MantissaBits - len)]
    ELSE LET k == len - MantissaBits
             s == BigShiftRight(x, k - 1)
             t == BigShiftRight(s.q, 1)
             up == BigOdd(s.q) /\ (sticky \/ s.lost \/ BigOdd(t.q))
             m == IF up THEN BigAdd(t.q, <<>>, 1) ELSE t.q
         IN  IF BigBitLen(m) > MantissaBits
             THEN [m |-> BigShiftRight(m, 1).q, e |-> e + k + 1]
             ELSE [m |-> m, e |-> e + k]

\* Python's int / int (true division) for 0 <= a, 0 < b: correctly rounded.
FloatDivInt(a, b) ==
    LET d == BigDivSmall(BigShiftLeft(BigFromInt(a), 3 * MantissaBits), b)
    IN  RoundToDouble(d.q, 0 - 3 * MantissaBits, d.r # 0)

\* float * int, for an int below 2^20
FloatMulInt(f, k) ==
    RoundToDouble(BigMulSmall(f.m, k, 0), f.e, FALSE)

\* float + float
FloatAdd(f, g) ==
    LET e == Min(f.e, g.e)
    IN  RoundToDouble(BigAdd(BigShiftLeft(f.m, f.e - e), BigShiftLeft(g.m, g.e - e), 0),
                      e, FALSE)

FloatFromInt(k) ==
    RoundToDouble(BigFromInt(k), 0, FALSE)

\* f <= g
FloatLeq(f, g) ==
    LET e == Min(f.e, g.e)
    IN  BigLeq(BigShiftLeft(f.m, f.e - e), BigShiftLeft(g.m, g.e - e))

\* |f - num/den| <= 2^(-k), for num >= 0, den > 0
FloatWithin(f, num, den, k) ==
    LET s == IF 0 - f.e > k THEN 0 - f.e ELSE k
        a == BigMulSmall(BigShiftLeft(f.m, f.e + s), den, 0)
        b == BigShiftLeft(BigFromInt(num), s)
        t == BigShiftLeft(BigFromInt(den), s - k)
    IN  BigLeq(a, BigAdd(b, t, 0)) /\ BigLeq(b, BigAdd(a, t, 0))


\* ------------------------------------------------------------ retry.py
\* RetryConfig(max_retries, initial_delay, max_delay, backoff_multiplier); the
\* float multiplier is the fraction mult_num / mult_den.
RetryConfig(r, initial, max, mnum, mden) ==
    [max_retries |-> r, initial_delay |-> initial, max_delay |-> max,
     mult_num |-> mnum, mult_den |-> mden]

\* calculate_delay: int(initial_delay * multiplier ** (attempt - 1)), capped.
calculate_delay_exponent_attempt(attempt, initial_delay, max_delay, mult_num, mult_den) ==
    LET delay == (initial_delay * Pow(mult_num, attempt))
                     \div Pow(mult_den, attempt)
    IN  Min(delay, max_delay)

calculate_delay(attempt, initial_delay, max_delay, mult_num, mult_den) ==
    LET delay == (initial_delay * Pow(mult_num, attempt - 1))
                     \div Pow(mult_den, attempt - 1)
    IN  Min(delay, max_delay)

\* The substrings is_retryable_error looks for, as found in str(error).lower()
\* of the messages the model uses.
Markers(message) ==
    CASE message = "Cannot connect to host x:80 [Connection refused]"
             -> {"connection refused"}
      [] message = "Internal server error" -> {"server error"}
      [] message = "Rate limit exceeded" -> {"rate limit"}
      [] message = "Service unavailable 503" -> {"5", "503", "service unavailable"}
      [] OTHER -> {}

is_retryable_error(error) ==
    LET found == Markers(error.message) IN
    \/ found \cap {"connection refused", "connection reset", "timeout", "not found"} # {}
    \/ found \cap {"5", "server error"} # {}
    \/ found \cap {"429", "rate limit"} # {}
    \/ found \cap {"503", "service unavailable"} # {}

\* retry(): what the loop does with the outcome of the call made in iteration
\* `attempt` (0-based): return its value, raise, or sleep and go round again.
RetryNextOffByOne(ok, error, attempt, config) ==
    IF ok THEN "return"
    ELSE IF attempt + 1 >= config.max_retries THEN "raise" ELSE "sleep"

RetryNextNoReturn(ok, error, attempt, config) ==
    IF attempt = config.max_retries
    THEN (IF ok THEN "return" ELSE "raise")
    ELSE "sleep"

RetryNextGated(ok, error, attempt, config) ==
    IF ok THEN "return"
    ELSE IF attempt = config.max_retries \/ ~is_retryable_error(error)
         THEN "raise" ELSE "sleep"

RetryNext(ok, error, attempt, config) ==
    IF ok THEN "return"
    ELSE IF attempt = config.max_retries THEN "raise" ELSE "sleep"

\* retry(): if on_retry: on_retry(attempt + 1, delay, error).  `observed` is
\* what the callback has been called with so far.
OnRetryZeroBased(observed, on_retry, attempt, delay, error) ==
    IF on_retry
    THEN Append(observed, [attempt |-> attempt - 1, delay |-> delay, error |-> error])
    ELSE observed

OnRetry(observed, on_retry, attempt, delay, error) ==
    IF on_retry
    THEN Append(observed, [attempt |-> attempt, delay |-> delay, error |-> error])
    ELSE observed

\* retry(): last_error = error.
LastErrorKeepFirst(prev, error) ==
    IF prev = NoError THEN error ELSE prev

LastError(prev, error) ==
    error

\* ------------------------------------------------------------ errors.py
AgentClientError(message, code, status_code, details) ==
    [kind |-> "AgentClientError", message |-> message, code |-> code,
     status_code |-> status_code, details |-> details, att |-> 0]

ValidationError(message, details) ==
    [AgentClientError(message, "VALIDATION_ERROR", 400, details)
        EXCEPT !.kind = "ValidationError"]

NotFoundError(message) ==
    [AgentClientError(message, "NOT_FOUND", 404, NoDetails)
        EXCEPT !.kind = "NotFoundError"]

\* AgentClientError and its subclasses.
ErrorClasses ==
    {"AgentClientError", "ValidationError", "AuthenticationError",
     "AuthorizationError", "NotFoundError", "TimeoutError", "RateLimitError",
     "ServerError", "NetworkError", "ConnectionError", "StreamError"}

\* Exceptions that are not AgentClientError: what aiohttp and asyncio raise.
Untyped(kind, message) ==
    [kind |-> kind, message |-> message, code |-> "", status_code |-> NoStatus,
     details |-> NoDetails, att |-> 0]

\* ------------------------------------------------------------ response bodies
\* A JSON object body: its keys "success", "error" and "data", each possibly
\* absent; the error object's keys likewise.
Absent == "absent"

ErrorObject(message, code, details) ==
    [message |-> message, code |-> code, details |-> details]

EmptyDict == ErrorObject(Absent, Absent, Absent)

Body(success, error, data) ==
    [success |-> success, error |-> error, data |-> data]

\* dict.get(key, default)
DictGet(value, default) ==
    IF value = Absent THEN default ELSE value

\* ------------------------------------------------------------ client.py
\* AgentClient._handle_error_response: the error it raises for (status, body).
HandleErrorResponseStrict500(status, body) ==
    LET error == body.error
        message == DictGet(error.message, "Unknown error")
        code == DictGet(error.code, "UNKNOWN")
        details == DictGet(error.details, NoDetails)
    IN  IF status = 400 THEN ValidationError(message, details)
        ELSE IF status = 401 THEN AgentClientError(message, "UNAUTHORIZED", status, NoDetails)
        ELSE IF status = 403 THEN AgentClientError(message, "FORBIDDEN", status, NoDetails)
        ELSE IF status = 404 THEN NotFoundError(message)
        ELSE IF status = 429 THEN AgentClientError(message, "RATE_LIMIT", status, NoDetails)
        ELSE IF status > 500 THEN AgentClientError(message, "SERVER_ERROR", status, NoDetails)
        ELSE AgentClientError(message, code, status, details)

HandleErrorResponse(status, body) ==
    LET error == body.error
        message == DictGet(error.message, "Unknown error")
        code == DictGet(error.code, "UNKNOWN")
        details == DictGet(error.details, NoDetails)
    IN  IF status = 400 THEN ValidationError(message, details)
        ELSE IF status = 401 THEN AgentClientError(message, "UNAUTHORIZED", status, NoDetails)
        ELSE IF status = 403 THEN AgentClientError(message, "FORBIDDEN", status, NoDetails)
        ELSE IF status = 404 THEN NotFoundError(message)
        ELSE IF status = 429 THEN AgentClientError(message, "RATE_LIMIT", status, NoDetails)
        ELSE IF status >= 500 THEN AgentClientError(message, "SERVER_ERROR", status, NoDetails)
        ELSE AgentClientError(message, code, status, details)

\* make_request, from the parsed response on: what it returns or raises.
MakeRequestResultFlagUnread(status, body) ==
    IF status >= 400
    THEN [ok |-> FALSE, value |-> NoResult, error |-> HandleErrorResponse(status, body)]
    ELSE [ok |-> TRUE,
          value |-> [returned |-> TRUE, unwrapped |-> body.data # Absent,
                     payload |-> DictGet(body.data, "body"), att |-> 0],
          error |-> NoError]

MakeRequestResult(status, body) ==
    IF status >= 400
    THEN [ok |-> FALSE, value |-> NoResult, error |-> HandleErrorResponse(status, body)]
    ELSE IF DictGet(body.success, "true") = "false"
    THEN [ok |-> FALSE, value |-> NoResult,
          error |-> AgentClientError(DictGet(body.error.message, "Unknown error"),
                                     DictGet(body.error.code, "UNKNOWN"),
                                     status,
                                     DictGet(body.error.details, NoDetails))]
    ELSE [ok |-> TRUE,
          value |-> [returned |-> TRUE, unwrapped |-> body.data # Absent,
                     payload |-> DictGet(body.data, "body"), att |-> 0],
          error |-> NoError]

\* make_request, when the transport gives no response: aiohttp.ClientError is
\* wrapped, anything else (asyncio.TimeoutError of the total timeout) passes.
MakeRequestTransportUnwrapped(exc) ==
    exc

MakeRequestTransport(exc) ==
    IF exc.kind = "aiohttp.ClientError"
    THEN AgentClientError(exc.message, "HTTP_ERROR", NoStatus, NoDetails)
    ELSE exc

\* ClientMetrics() of types.py: all counters 0, rates 0.0, last_error None.
ClientMetrics ==
    [total_requests |-> 0, successful_requests |-> 0, failed_requests |-> 0,
     total_errors |-> 0, average_latency |-> Rat(0, 1), success_rate |-> FloatZero,
     error_rate |-> FloatZero, last_error |-> NoLastError]

\* _update_metrics: (count / total_requests) * 100
RateAsFraction(count, total) ==
    FloatDivInt(count, total)

\* (count / total) * 100 for every pair of counts that can occur, each
\* computed once.
Rates ==
    [total \in 1..(NumCalls + MaxSeqCalls) |->
        [count \in 0..total |-> FloatMulInt(FloatDivInt(count, total), 100)]]

Rate(count, total) ==
    Rates[total][count]

\* AgentClient._update_metrics(success, latency)
UpdateMetricsSkipTotal(m, success, latency) ==
    LET total == IF success THEN m.total_requests + 1 ELSE m.total_requests
        succ == IF success THEN m.successful_requests + 1 ELSE m.successful_requests
        failed == IF success THEN m.failed_requests ELSE m.failed_requests + 1
    IN  [m EXCEPT !.total_requests = total, !.successful_requests = succ,
                  !.failed_requests = failed]

UpdateMetricsSwapped(m, success, latency) ==
    LET total == m.total_requests + 1
        succ == IF success THEN m.successful_requests ELSE m.successful_requests + 1
        failed == IF success THEN m.failed_requests + 1 ELSE m.failed_requests
    IN  [m EXCEPT !.total_requests = total, !.successful_requests = succ,
                  !.failed_requests = failed]

UpdateMetricsNoFailed(m, success, latency) ==
    LET total == m.total_requests + 1
        succ == IF success THEN m.successful_requests + 1 ELSE m.successful_requests
        errors == IF success THEN m.total_errors ELSE m.total_errors + 1
    IN  [m EXCEPT !.total_requests = total, !.successful_requests = succ,
                  !.total_errors = errors]

UpdateMetricsErrorsEveryCall(m, success, latency) ==
    LET total == m.total_requests + 1
        succ == IF success THEN m.successful_requests + 1 ELSE m.successful_requests
        failed == IF success THEN m.failed_requests ELSE m.failed_requests + 1
    IN  [m EXCEPT !.total_requests = total, !.successful_requests = succ,
                  !.failed_requests = failed,
                  !.total_errors = m.total_errors + 1,
                  !.success_rate = Rate(succ, total),
                  !.error_rate = Rate(failed, total)]

UpdateMetrics(m, success, latency) ==
    LET total == m.total_requests + 1
        succ == IF success THEN m.successful_requests + 1 ELSE m.successful_requests
        failed == IF success THEN m.failed_requests ELSE m.failed_requests + 1
        errors == IF success THEN m.total_errors ELSE m.total_errors + 1
        avg == m.average_latency
    IN  [m EXCEPT !.total_requests = total,
                  !.successful_requests = succ,
                  !.failed_requests = failed,
                  !.total_errors = errors,
                  !.average_latency =
                      Rat(avg.num * (total - 1) + latency * avg.den, avg.den * total),
                  !.success_rate = Rate(succ, total),
                  !.error_rate = Rate(failed, total)]

\* ------------------------------------------------------------ pool.py
\* ConnectionPool.__init__: no session, not closed.  `created` counts the
\* ClientSession objects constructed, `dead` holds the sessions closed.
NewPool ==
    [session |-> NoSession, closed |-> FALSE, created |-> 0, dead |-> {}]

\* ConnectionPool.initialize
InitializeAlways(pool) ==
    [pool EXCEPT !.session = pool.created + 1, !.created = pool.created + 1]

Initialize(pool) ==
    IF pool.session = NoSession
    THEN [pool EXCEPT !.session = pool.created + 1, !.created = pool.created + 1]
    ELSE pool

\* ConnectionPool.acquire: the pool afterwards and the session returned.
AcquireAlwaysNew(pool) ==
    LET after == InitializeAlways(pool)
    IN  [pool |-> after, ret |-> after.session]

Acquire(pool) ==
    LET after == IF pool.session = NoSession THEN Initialize(pool) ELSE pool
    IN  [pool |-> after, ret |-> after.session]

\* ConnectionPool.close
CloseForgetsSession(pool) ==
    IF pool.session # NoSession
    THEN [pool EXCEPT !.dead = @ \cup {pool.session}, !.closed = TRUE,
                      !.session = NoSession]
    ELSE pool

CloseMarksAlways(pool) ==
    IF pool.session # NoSession
    THEN [pool EXCEPT !.dead = @ \cup {pool.session}, !.closed = TRUE]
    ELSE [pool EXCEPT !.closed = TRUE]

Close(pool) ==
    IF pool.session # NoSession
    THEN [pool EXCEPT !.dead = @ \cup {pool.session}, !.closed = TRUE]
    ELSE pool

\* aiohttp.TCPConnector(limit=max_connections): a request gets a connection
\* only while fewer than `limit` are in use, and waits otherwise.
ConnectorHasSlotUnlimited(inUseNow, limit) ==
    TRUE

ConnectorHasSlot(inUseNow, limit) ==
    Cardinality(inUseNow) < limit

\* ------------------------------------------------------------ inputs
\* What the server and the transport can answer to one attempt.
Responses ==
    { [type |-> "response", status |-> 200,
       body |-> Body("true", EmptyDict, "payload")],
      [type |-> "response", status |-> 200,
       body |-> Body("false", ErrorObject("bad state", "X", Absent), Absent)],
      [type |-> "response", status |-> 400,
       body |-> Body("false", ErrorObject("invalid name", "BAD_INPUT", "name"), Absent)],
      [type |-> "response", status |-> 401,
       body |-> Body("false", ErrorObject("invalid api key", Absent, Absent), Absent)],
      [type |-> "response", status |-> 403,
       body |-> Body("false", ErrorObject("forbidden", Absent, Absent), Absent)],
      [type |-> "response", status |-> 404,
       body |-> Body("false", ErrorObject("no such agent", "NOT_FOUND", Absent), Absent)],
      [type |-> "response", status |-> 409,
       body |-> Body("false", ErrorObject("conflict", "CONFLICT", "version"), Absent)],
      [type |-> "response", status |-> 429,
       body |-> Body("false", ErrorObject("Rate limit exceeded", Absent, Absent), Absent)],
      [type |-> "response", status |-> 500,
       body |-> Body(Absent, ErrorObject("Internal server error", Absent, Absent), Absent)] }

TransportFailures ==
    { [type |-> "exception",
       exc |-> Untyped("aiohttp.ClientError",
                       "Cannot connect to host x:80 [Connection refused]")],
      [type |-> "exception", exc |-> Untyped("asyncio.TimeoutError", "")] }

\* What parsing the body of a received response can raise inside make_request:
\* response.json() on a body that is not JSON, and .get() on a body that is
\* not an object or on an "error" member that is null.
DecodeFailures ==
    { [type |-> "exception",
       exc |-> Untyped("json.JSONDecodeError",
                       "Expecting value: line 1 column 1 (char 0)")],
      [type |-> "exception",
       exc |-> Untyped("AttributeError",
                       "'NoneType' object has no attribute 'get'")] }

Outcomes == Responses \cup TransportFailures \cup DecodeFailures

\* How an attempt ended, by its outcome.
OutcomeCause(o) ==
    IF o.type = "response" THEN "response"
    ELSE IF o.exc.kind = "asyncio.TimeoutError" THEN "timeout"
    ELSE IF o.exc.kind = "aiohttp.ClientError" THEN "transport"
    ELSE "body"

\* One outcome on which request() returns and one on which it raises, at
\* either stage of an attempt.
ConcurrentOutcomes ==
    { o \in Outcomes : \/ o.type = "response" /\ o.status = 200 /\ o.body.success = "true"
                       \/ o.type = "exception" /\ o.exc.kind = "aiohttp.ClientError" }

\* time.time() - start_time in ms, each call of make_request taken to last
\* 1 ms: the backoff delays slept plus the attempts made.
Elapsed(r) ==
    r.slept + r.calls

\* request(..., retries=None): the per-call retry override, None or a count.
NoOverride == -1

Overrides == {NoOverride} \cup (0..MaxRetries)

\* request(): the configuration it hands to retry() is self.retry_config,
\* whatever `retries` it was called with.
RequestRetryConfig(retries, retry_config) ==
    retry_config

\* AgentClient.__init__: the retry and pool configurations a client is built with.
Configs(maxRetries) ==
    { [retry_config |-> RetryConfig(r, InitialDelay, MaxDelay, 2, 1),
       pool_config |-> [max_connections |-> c]]
        : r \in 0..maxRetries, c \in 1..MaxConnections }

\* ------------------------------------------------------------ state
VARIABLES
    cfg,         \* the client's configuration, fixed at construction
    pool,        \* ConnectionPool: session, _closed (and sessions made, closed)
    inUse,       \* the request calls holding a connection of the connector
    request_id,  \* AgentClient.request_id
    metrics,     \* AgentClient.metrics
    req,         \* per request call: its position and locals
    lastOp,      \* the last direct call on the pool, and what it returned
    call         \* a direct call of one function: its arguments and result

vars == <<cfg, pool, inUse, request_id, metrics, req, lastOp, call>>

\* No function is being called directly.
NoCall ==
    [fn |-> "none"]

\* A direct call of initialize, acquire or close; ret is acquire's session.
PoolCall(op, ret) ==
    [op |-> op, ret |-> ret]

\* One request call before it starts.  attempt, last_error: locals of retry();
\* calls, sleeps, slept: how often fn was invoked and asyncio.sleep awaited,
\* and the delays slept; fails: the calls of fn that raised; cause: how the
\* latest attempt ended; retries: the override the call was made with;
\* on_retry: whether retry() was given a callback (request() gives none), and
\* observed: the calls of it;
\* outcome, result, raised: how the call ended, as its caller sees it.
NewRequest ==
    [pc |-> "idle", rid |-> 0, retries |-> NoOverride, cause |-> "none",
     on_retry |-> FALSE, observed |-> <<>>,
     attempt |-> 0, last_error |-> NoError,
     calls |-> 0, sleeps |-> 0, slept |-> 0, fails |-> 0, delay |-> 0, handle |-> NoSession,
     outcome |-> "none", result |-> NoResult, raised |-> NoError]

InitOver(configs) ==
    /\ cfg \in configs
    /\ pool = NewPool
    /\ inUse = {}
    /\ request_id = 0
    /\ metrics = ClientMetrics
    /\ req = [p \in Procs |-> NewRequest]
    /\ lastOp = PoolCall("none", NoSession)
    /\ call = NoCall

\* ------------------------------------------------------------ retry()
\* The body of retry()'s loop after the call of iteration r.attempt ended:
\* `ok` with `value`, or raising `error`.  att marks the call (1-based) that
\* produced a value or an exception object.
AfterCall(r, ok, value, error, config) ==
    LET e == IF ok THEN NoError ELSE [error EXCEPT !.att = r.attempt + 1]
        next == RetryNext(ok, e, r.attempt, config)
        r1 == IF ok THEN r
              ELSE [r EXCEPT !.last_error = LastError(r.last_error, e),
                             !.fails = @ + 1]
    IN  CASE next = "return" ->
                 [r1 EXCEPT !.pc = "done", !.outcome = "returned",
                            !.result = [value EXCEPT !.att = r.attempt + 1],
                            !.last_error = NoError, !.handle = NoSession]
          [] next = "raise" ->
                 [r1 EXCEPT !.pc = "done", !.outcome = "raised",
                            !.raised = r1.last_error, !.last_error = NoError,
                            !.handle = NoSession]
          [] OTHER ->
                 LET delay == calculate_delay(r.attempt + 1,
                                              config.initial_delay,
                                              config.max_delay,
                                              config.mult_num,
                                              config.mult_den)
                 IN  [r1 EXCEPT !.pc = "sleep", !.sleeps = @ + 1,
                                !.delay = delay,
                                !.observed = OnRetry(r.observed, r.on_retry,
                                                     r.attempt + 1, delay, e)]

\* make_request up to its first suspension: pool.acquire(), then
\* session.request(), which raises RuntimeError at once on a closed session.
BeginCall(r, poolNow, config) ==
    LET acq == Acquire(poolNow)
        r1 == [r EXCEPT !.calls = @ + 1, !.handle = acq.ret]
    IN  IF acq.ret \in acq.pool.dead
        THEN AfterCall([r1 EXCEPT !.cause = "closed"], FALSE, NoResult,
                       Untyped("RuntimeError", "Session is closed"), config)
        ELSE [r1 EXCEPT !.pc = "connect"]

\* request(): self.metrics.last_error = {"message": str(error), ...}
RecordLastErrorOnce(m, error) ==
    IF m.last_error = NoLastError
    THEN [m EXCEPT !.last_error = [message |-> error.message]]
    ELSE m

RecordLastError(m, error) ==
    [m EXCEPT !.last_error = [message |-> error.message]]

\* AgentClient._generate_request_id: self.request_id += 1; the number that
\* the id returned starts with.
GenerateRequestIdStuck(id) ==
    IF id = 0 THEN 1 ELSE id

GenerateRequestId(id) ==
    id + 1

\* The end of request(): nothing while retry() is still running; once it has
\* returned or raised, one _update_metrics (and last_error on failure).
Settle(p, r) ==
    /\ req' = [req EXCEPT ![p] = r]
    /\ IF r.pc = "done"
       THEN metrics' =
                IF r.outcome = "returned"
                THEN UpdateMetrics(metrics, TRUE, Elapsed(r))
                ELSE RecordLastError(UpdateMetrics(metrics, FALSE, Elapsed(r)),
                                     r.raised)
       ELSE metrics' = metrics

\* ------------------------------------------------------------ AgentClient.request
\* The configuration retry() runs the call r under.
RetryConfigOf(r) ==
    RequestRetryConfig(r.retries, cfg.retry_config)

\* request() from its call to the first suspension: lazy initialize, request
\* id, then retry()'s first call of make_request.
Start(p, overrides) ==
    /\ req[p].pc = "idle"
    /\ \E retries \in overrides :
         LET pool1 == IF pool.session = NoSession THEN Initialize(pool) ELSE pool
             r0 == [req[p] EXCEPT !.rid = GenerateRequestId(request_id),
                                  !.attempt = 0, !.retries = retries]
         IN  /\ request_id' = GenerateRequestId(request_id)
             /\ pool' = Acquire(pool1).pool
             /\ Settle(p, BeginCall(r0, pool1, RetryConfigOf(r0)))
    /\ UNCHANGED <<call, cfg, inUse, lastOp>>

\* The connector hands the waiting attempt a connection.
Connect(p) ==
    /\ req[p].pc = "connect"
    /\ req[p].handle \notin pool.dead
    /\ ConnectorHasSlot(inUse, cfg.pool_config.max_connections)
    /\ inUse' = inUse \cup {p}
    /\ req' = [req EXCEPT ![p].pc = "response"]
    /\ UNCHANGED <<call, cfg, pool, request_id, metrics, lastOp>>

\* The attempt fails before it has a connection: the transport fails or the
\* total timeout elapses.
ConnectFail(p, outs) ==
    /\ req[p].pc = "connect"
    /\ \E o \in outs \cap TransportFailures :
           Settle(p, AfterCall([req[p] EXCEPT !.cause = OutcomeCause(o)],
                               FALSE, NoResult, MakeRequestTransport(o.exc),
                               RetryConfigOf(req[p])))
    /\ UNCHANGED <<call, cfg, pool, inUse, request_id, lastOp>>

\* make_request: leaving `async with session.request(...)`, by return or by
\* exception, gives the connection back to the connector.
ReleaseOnReturn(held, p, ok) ==
    IF ok THEN held \ {p} ELSE held

Release(held, p, ok) ==
    held \ {p}

\* The attempt ends with a response, a transport failure or a timeout; the
\* connection goes back to the connector as the `async with` block is left.
Respond(p, outs) ==
    /\ req[p].pc = "response"
    /\ \E o \in outs :
           LET res == IF o.type = "response"
                      THEN MakeRequestResult(o.status, o.body)
                      ELSE [ok |-> FALSE, value |-> NoResult,
                            error |-> MakeRequestTransport(o.exc)]
           IN  /\ inUse' = Release(inUse, p, res.ok)
               /\ Settle(p, AfterCall([req[p] EXCEPT !.cause = OutcomeCause(o)],
                                       res.ok, res.value, res.error,
                                       RetryConfigOf(req[p])))
    /\ UNCHANGED <<call, cfg, pool, request_id, lastOp>>

\* asyncio.sleep(delay) is over: the loop's next iteration calls make_request.
Wake(p) ==
    /\ req[p].pc = "sleep"
    /\ LET r0 == [req[p] EXCEPT !.attempt = @ + 1, !.slept = @ + req[p].delay,
                                !.delay = 0]
       IN  /\ pool' = Acquire(pool).pool
           /\ Settle(p, BeginCall(r0, pool, RetryConfigOf(r0)))
    /\ UNCHANGED <<call, cfg, inUse, request_id, lastOp>>

\* ------------------------------------------------------------ direct pool calls
\* AgentClient.initialize -> ConnectionPool.initialize
ClientInitialize ==
    /\ pool' = Initialize(pool)
    /\ lastOp' = PoolCall("initialize", NoSession)
    /\ UNCHANGED <<call, cfg, inUse, request_id, metrics, req>>

\* ConnectionPool.acquire called on the client's pool
PoolAcquire ==
    /\ pool' = Acquire(pool).pool
    /\ lastOp' = PoolCall("acquire", Acquire(pool).ret)
    /\ UNCHANGED <<call, cfg, inUse, request_id, metrics, req>>

\* AgentClient.close -> ConnectionPool.close
ClientClose ==
    /\ pool' = Close(pool)
    /\ lastOp' = PoolCall("close", NoSession)
    /\ UNCHANGED <<call, cfg, inUse, request_id, metrics, req>>

\* The request calls `procs` run concurrently on one client, each made with
\* one of the retry `overrides`, the server and the transport answering each
\* attempt with one of `outs`.
NextOver(procs, outs, overrides) ==
    \/ \E p \in procs : Start(p, overrides)
    \/ \E p \in procs : Connect(p)
    \/ \E p \in procs : ConnectFail(p, outs)
    \/ \E p \in procs : Respond(p, outs)
    \/ \E p \in procs : Wake(p)
    \/ ClientInitialize
    \/ PoolAcquire
    \/ ClientClose

\* NumCalls concurrent request calls; each attempt ends with a payload, a
\* typed HTTP error or a transport failure.
Init == InitOver(Configs(ConcurrentRetries))

Next == NextOver(Procs, ConcurrentOutcomes, {NoOverride})

Spec == Init /\ [][Next]_vars

\* One request call, over every kind of attempt outcome.
InitCall == InitOver(Configs(MaxRetries))

NextCall == NextOver({1}, Outcomes, Overrides)

SpecCall == InitCall /\ [][NextCall]_vars

\* The caller, its request call over, makes the next one.
Again(p) ==
    /\ req[p].pc = "done"
    /\ request_id < MaxSeqCalls
    /\ req' = [req EXCEPT ![p] = NewRequest]
    /\ UNCHANGED <<call, cfg, pool, inUse, request_id, metrics, lastOp>>

\* Up to MaxSeqCalls request calls made one after the other on one client.
InitSeq == InitOver(Configs(ConcurrentRetries))

NextSeq ==
    \/ NextOver({1}, ConcurrentOutcomes, {NoOverride})
    \/ Again(1)

SpecSeq == InitSeq /\ [][NextSeq]_vars

\* ------------------------------------------------------------ direct calls
\* AgentClient(api_url, api_key): RetryPresets.MODERATE and PoolConfig().
DefaultConfig ==
    [retry_config |-> RetryConfig(3, InitialDelay, MaxDelay, 2, 1),
     pool_config |-> [max_connections |-> 10]]

\* A client on which nothing runs but the direct call `call \in calls`.
InitDirect(calls) ==
    /\ cfg = DefaultConfig
    /\ pool = NewPool
    /\ inUse = {}
    /\ request_id = 0
    /\ metrics = ClientMetrics
    /\ req = [p \in Procs |-> NewRequest]
    /\ lastOp = PoolCall("none", NoSession)
    /\ call \in calls

\* The response statuses and JSON object bodies the classifier is applied to:
\* every key of the body and of its error object present or absent.
StatusCodes ==
    {200, 201, 204, 399, 400, 401, 402, 403, 404, 409, 429, 499, 500, 503, 599}

ErrorObjects ==
    { ErrorObject(m, c, d) :
        m \in {Absent, "boom"}, c \in {Absent, "E_CODE"}, d \in {Absent, "field"} }

Bodies ==
    { Body(s, e, d) :
        s \in {Absent, "true", "false"}, e \in ErrorObjects, d \in {Absent, "payload"} }

ResponseCalls ==
    { [fn |-> f, status |-> s, body |-> b, done |-> FALSE,
       out |-> [ok |-> FALSE, value |-> NoResult, error |-> NoError]] :
        f \in {"_handle_error_response", "make_request"},
        s \in StatusCodes, b \in Bodies }

\* self._handle_error_response(status, body): it raises on every path.
HandleErrorResponseCall ==
    /\ call.fn = "_handle_error_response"
    /\ ~call.done
    /\ call' = [call EXCEPT !.done = TRUE,
                            !.out = [ok |-> FALSE, value |-> NoResult,
                                     error |-> HandleErrorResponse(call.status,
                                                                   call.body)]]
    /\ UNCHANGED <<cfg, pool, inUse, request_id, metrics, req, lastOp>>

\* make_request once the response (status, body) is parsed.
MakeRequestCall ==
    /\ call.fn = "make_request"
    /\ ~call.done
    /\ call' = [call EXCEPT !.done = TRUE,
                            !.out = MakeRequestResult(call.status, call.body)]
    /\ UNCHANGED <<cfg, pool, inUse, request_id, metrics, req, lastOp>>

InitResponse == InitDirect(ResponseCalls)

NextResponse ==
    \/ HandleErrorResponseCall
    \/ MakeRequestCall

SpecResponse == InitResponse /\ [][NextResponse]_vars

\* The arguments calculate_delay is applied to: delays in ms, and multipliers
\* num/den that are exact as floats.
InitialDelays == {0, 1, 3, InitialDelay}

MaxDelays == {0, 2, 7, MaxDelay}

Multipliers == {<<1, 1>>, <<3, 2>>, <<2, 1>>, <<5, 2>>}

DelayCalls ==
    { [fn |-> "calculate_delay", initial_delay |-> i, max_delay |-> m,
       mult_num |-> k[1], mult_den |-> k[2], attempt |-> 0, out |-> 0, prev |-> 0] :
        i \in InitialDelays, m \in MaxDelays, k \in Multipliers }

\* calculate_delay(attempt, ...) for attempt = 1, 2, ... in turn, as retry()
\* asks for it after each failed call; prev is the delay before.
CalculateDelayCall ==
    /\ call.fn = "calculate_delay"
    /\ call.attempt < MaxAttempt
    /\ call' = [call EXCEPT !.attempt = @ + 1,
                            !.prev = call.out,
                            !.out = calculate_delay(call.attempt + 1,
                                                    call.initial_delay,
                                                    call.max_delay,
                                                    call.mult_num,
                                                    call.mult_den)]
    /\ UNCHANGED <<cfg, pool, inUse, request_id, metrics, req, lastOp>>

InitDelay == InitDirect(DelayCalls)

NextDelay == CalculateDelayCall

SpecDelay == InitDelay /\ [][NextDelay]_vars

\* ------------------------------------------------------------ retry() called directly
\* retry(fn, config, on_retry) with any awaitable fn: what one call of fn
\* returns or raises.
FnOutcomes ==
    { [ok |-> TRUE, value |-> [NoResult EXCEPT !.returned = TRUE, !.payload = "value"],
       error |-> NoError],
      [ok |-> FALSE, value |-> NoResult, error |-> Untyped("ValueError", "boom")],
      [ok |-> FALSE, value |-> NoResult,
       error |-> AgentClientError("Service unavailable 503", "SERVER_ERROR", 503,
                                  NoDetails)] }

\* RetryPresets AGGRESSIVE, MODERATE and CONSERVATIVE, with 0..MaxRetries
\* retries.
RetryConfigs ==
    { RetryConfig(r, d[1], d[2], 2, 1) :
        r \in 0..MaxRetries,
        d \in {<<50, 5000>>, <<InitialDelay, MaxDelay>>, <<500, 5000>>} }

\* retry() up to the first suspension: iteration 0 has called fn.
RetryCalls ==
    { [fn |-> "retry", config |-> c,
       frame |-> [NewRequest EXCEPT !.pc = "call", !.calls = 1, !.on_retry = b]] :
        c \in RetryConfigs, b \in BOOLEAN }

\* The call of fn in progress returns or raises.
RetryFnEnds ==
    /\ call.fn = "retry"
    /\ call.frame.pc = "call"
    /\ \E o \in FnOutcomes :
           call' = [call EXCEPT !.frame = AfterCall(call.frame, o.ok, o.value,
                                                    o.error, call.config)]
    /\ UNCHANGED <<cfg, pool, inUse, request_id, metrics, req, lastOp>>

\* asyncio.sleep(delay) is over: the next iteration calls fn.
RetryWake ==
    /\ call.fn = "retry"
    /\ call.frame.pc = "sleep"
    /\ call' = [call EXCEPT !.frame =
                    [call.frame EXCEPT !.pc = "call", !.attempt = @ + 1,
                                       !.calls = @ + 1,
                                       !.slept = @ + call.frame.delay,
                                       !.delay = 0]]
    /\ UNCHANGED <<cfg, pool, inUse, request_id, metrics, req, lastOp>>

InitRetry == InitDirect(RetryCalls)

NextRetry ==
    \/ RetryFnEnds
    \/ RetryWake

SpecRetry == InitRetry /\ [][NextRetry]_vars

\* ------------------------------------------------------------ AgentClient.__init__
\* Strings whose characters matter are sequences of characters.
StrHttp == <<"h", "t", "t", "p">>

StrHttpScheme == StrHttp \o <<":", "/", "/">>

StrHttpsScheme == StrHttp \o <<"s", ":", "/", "/">>

\* str.startswith(prefix)
StartsWith(str, prefix) ==
    /\ Len(str) >= Len(prefix)
    /\ SubSeq(str, 1, Len(prefix)) = prefix

\* str.rstrip(ch): every trailing ch removed
RECURSIVE RStrip(_, _)
RStrip(str, ch) ==
    IF str # <<>> /\ str[Len(str)] = ch
    THEN RStrip(SubSeq(str, 1, Len(str) - 1), ch)
    ELSE str

\* AgentClient._validate_url
ValidateUrl(url) ==
    IF url = <<>>
    THEN [ok |-> FALSE, value |-> <<>>,
          error |-> ValidationError("api_url is required", NoDetails)]
    ELSE IF ~StartsWith(url, StrHttp)
    THEN [ok |-> FALSE, value |-> <<>>,
          error |-> ValidationError("api_url must start with http:// or https://",
                                    NoDetails)]
    ELSE [ok |-> TRUE, value |-> RStrip(url, "/"), error |-> NoError]

\* AgentClient._validate_key
ValidateKey(api_key) ==
    IF api_key = <<>>
    THEN [ok |-> FALSE, value |-> <<>>,
          error |-> ValidationError("api_key is required", NoDetails)]
    ELSE [ok |-> TRUE, value |-> api_key, error |-> NoError]

\* AgentClient.__init__(api_url, api_key): the exception it raises, or the
\* client's api_url and api_key with its pool constructed.
ClientInit(api_url, api_key) ==
    LET url == ValidateUrl(api_url)
        key == ValidateKey(api_key)
    IN  IF ~url.ok
        THEN [raised |-> TRUE, error |-> url.error, api_url |-> <<>>,
              api_key |-> <<>>, pool_created |-> FALSE]
        ELSE IF ~key.ok
        THEN [raised |-> TRUE, error |-> key.error, api_url |-> <<>>,
              api_key |-> <<>>, pool_created |-> FALSE]
        ELSE [raised |-> FALSE, error |-> NoError, api_url |-> url.value,
              api_key |-> key.value, pool_created |-> TRUE]

\* The base URLs and credentials a client is constructed with.
Urls ==
    { scheme \o host \o slashes :
        scheme \in {<<>>, <<"h", "t", "t">>, StrHttp, StrHttp \o <<"x">>,
                    StrHttpScheme, StrHttpsScheme, <<"f", "t", "p", ":", "/", "/">>},
        host \in {<<>>, <<"x">>, <<"x", "/", "y">>},
        slashes \in {<<>>, <<"/">>, <<"/", "/">>} }

Keys == {<<>>, <<"k">>, <<"k", "2">>}

InitCalls ==
    { [fn |-> "__init__", api_url |-> u, api_key |-> k, done |-> FALSE,
       out |-> [raised |-> FALSE, error |-> NoError, api_url |-> <<>>,
                api_key |-> <<>>, pool_created |-> FALSE]] :
        u \in Urls, k \in Keys }

ClientInitCall ==
    /\ call.fn = "__init__"
    /\ ~call.done
    /\ call' = [call EXCEPT !.done = TRUE,
                            !.out = ClientInit(call.api_url, call.api_key)]
    /\ UNCHANGED <<cfg, pool, inUse, request_id, metrics, req, lastOp>>

InitConstruct == InitDirect(InitCalls)

NextConstruct == ClientInitCall

SpecConstruct == InitConstruct /\ [][NextConstruct]_vars

\* ------------------------------------------------- TasksManager.wait_for_completion
\* Time is counted in seconds of the event loop's clock.
MaxTimeout == 2
MaxGetTime == 1

\* TasksManager.__init__
poll_interval == 1
max_poll_wait == 3600

\* timeout: Optional[int] = None
NoTimeout == -1
Timeouts == {NoTimeout} \cup (0..MaxTimeout)

TerminalStatuses == {"COMPLETED", "FAILED", "CANCELLED", "TIMED_OUT"}
Statuses == {"PENDING", "IN_PROGRESS"} \cup TerminalStatuses

\* errors.TimeoutError, imported as ClientTimeoutError.
ClientTimeoutError(message, timeout) ==
    [AgentClientError(message, "TIMEOUT", 408, NoDetails)
        EXCEPT !.kind = "TimeoutError", !.details = timeout]

\* effective_timeout = timeout or self.max_poll_wait: Python's `or` takes the
\* right operand when the left one is None or 0.
EffectiveTimeout(timeout) ==
    IF timeout = NoTimeout \/ timeout = 0 THEN max_poll_wait ELSE timeout

\* wait_for_completion up to its first suspension: start_time is read and the
\* first get is awaited.
WaitCalls ==
    { [fn |-> "wait_for_completion", timeout |-> t,
       effective_timeout |-> EffectiveTimeout(t), start_time |-> 0, now |-> 0,
       pc |-> "get", status |-> "None", elapsed |-> 0, outcome |-> "none",
       error |-> NoError] :
        t \in Timeouts }

\* get returns a task after some time: a terminal status is returned, otherwise
\* the elapsed time is compared with effective_timeout.
WaitGetReturns ==
    /\ call.fn = "wait_for_completion"
    /\ call.pc = "get"
    /\ \E d \in 0..MaxGetTime, st \in Statuses :
           LET now == call.now + d
               elapsed == now - call.start_time
               c == [call EXCEPT !.now = now, !.status = st]
           IN  call' =
                   IF st \in TerminalStatuses
                   THEN [c EXCEPT !.pc = "done", !.outcome = "returned"]
                   ELSE IF elapsed > call.effective_timeout
                   THEN [c EXCEPT !.pc = "done", !.outcome = "raised",
                                  !.elapsed = elapsed,
                                  !.error = ClientTimeoutError(
                                                "did not complete",
                                                call.effective_timeout * 1000)]
                   ELSE [c EXCEPT !.pc = "sleep", !.elapsed = elapsed]
    /\ UNCHANGED <<cfg, pool, inUse, request_id, metrics, req, lastOp>>

\* get raises what client.request raised: nothing catches it.
WaitGetRaises ==
    /\ call.fn = "wait_for_completion"
    /\ call.pc = "get"
    /\ \E d \in 0..MaxGetTime :
           call' = [call EXCEPT !.now = @ + d, !.pc = "done",
                                !.outcome = "raised",
                                !.error = NotFoundError("no such task")]
    /\ UNCHANGED <<cfg, pool, inUse, request_id, metrics, req, lastOp>>

\* asyncio.sleep(self.poll_interval) is over: the loop awaits the next get.
WaitWake ==
    /\ call.fn = "wait_for_completion"
    /\ call.pc = "sleep"
    /\ call' = [call EXCEPT !.now = @ + poll_interval, !.pc = "get"]
    /\ UNCHANGED <<cfg, pool, inUse, request_id, metrics, req, lastOp>>

InitWait == InitDirect(WaitCalls)

NextWait ==
    \/ WaitGetReturns
    \/ WaitGetRaises
    \/ WaitWake

SpecWait == InitWait /\ [][NextWait]_vars

\* The scheduler runs every coroutine that can run.
FairSpecWait == SpecWait /\ WF_vars(NextWait)

\* ------------------------------------------------------------ properties
R == cfg.retry_config.max_retries

Done(p) == req[p].pc = "done"

Returned(p) == Done(p) /\ req[p].outcome = "returned"

Raised(p) == Done(p) /\ req[p].outcome = "raised"

\* The exception of the call's latest failed attempt, as the caller of retry()
\* or retry() itself holds it.
LastFailure(r) ==
    IF r.pc = "done" THEN r.raised ELSE r.last_error

\* Every exception object make_request can raise in its n-th call.
AttemptErrors(n) ==
    { [e EXCEPT !.att = n] :
        e \in { MakeRequestResult(o.status, o.body).error : o \in Responses }
              \cup { MakeRequestTransport(o.exc) : o \in Outcomes \ Responses }
              \cup { Untyped("RuntimeError", "Session is closed") } } \ {NoError}

\* C1: with max_retries = R, a call whose attempts all fail invokes the
\* operation exactly R+1 times, never more, and then raises the failure of the
\* (R+1)-th attempt, not an earlier one.
C1_AlwaysFailingMakesAllAttempts ==
    \A p \in Procs :
        /\ req[p].calls <= R + 1
        /\ (Done(p) /\ req[p].fails = req[p].calls) =>
               /\ Raised(p)
               /\ req[p].calls = R + 1
               /\ req[p].raised.att = R + 1
        /\ Raised(p) => req[p].fails = req[p].calls

C1_Witness ==
    \E p \in Procs :
        /\ R = 2
        /\ Raised(p)
        /\ req[p].calls = 3
        /\ req[p].raised.att = 3

\* The counts of a call: one sleep per failed attempt, one more call than
\* failures while an attempt runs and when the call has returned.
C2_CountsOnSuccess ==
    \A p \in Procs :
        /\ Returned(p) =>
               /\ req[p].calls = req[p].fails + 1
               /\ req[p].sleeps = req[p].fails
               /\ req[p].calls <= R + 1
               /\ req[p].result.returned
               /\ req[p].result.att = req[p].calls
        /\ req[p].pc \in {"connect", "response"} =>
               /\ req[p].calls = req[p].fails + 1
               /\ req[p].sleeps = req[p].fails
        /\ req[p].pc = "sleep" =>
               /\ req[p].calls = req[p].fails
               /\ req[p].sleeps = req[p].fails

\* C2: a call that succeeds on attempt k <= R+1 after k-1 failures has invoked
\* the operation k times and slept k-1 times, returns the k-th attempt's
\* result, and nothing follows: no further attempt and no sleep.
C2_SuccessReturnsImmediately ==
    /\ []C2_CountsOnSuccess
    /\ [][\A p \in Procs : Done(p) => req'[p] = req[p]]_vars

C2_Witness ==
    \E p \in Procs :
        /\ Returned(p)
        /\ req[p].calls = 2
        /\ req[p].sleeps = 1
        /\ R = 2

\* A step that changes the metrics ends exactly one request call.
C3_MetricsChangeOnlyAtEnd ==
    (metrics' # metrics) =>
        \E p \in Procs :
            /\ ~Done(p)
            /\ req'[p].pc = "done"
            /\ metrics'.total_requests = metrics.total_requests + 1
            /\ \A q \in Procs \ {p} : req'[q] = req[q]

\* C3: the metrics change only in the step in which one request call ends,
\* and total_requests then grows by exactly 1, however many attempts the call
\* made; total_requests counts the calls that have ended.
C3_OneUpdatePerCall ==
    /\ [](metrics.total_requests = Cardinality({p \in Procs : Done(p)}))
    /\ [][C3_MetricsChangeOnlyAtEnd]_vars

C3_Witness ==
    \E p, q \in Procs :
        /\ Raised(p)
        /\ req[p].calls = 2
        /\ ~Done(q)
        /\ req[q].pc = "sleep"
        /\ metrics.total_requests = 1

\* C4: once all NumCalls concurrent request calls have completed,
\* total_requests is NumCalls, successful_requests the number of calls that
\* returned and failed_requests the number that raised.
C4_FinalCountsExact ==
    (\A p \in Procs : Done(p)) =>
        /\ metrics.total_requests = NumCalls
        /\ metrics.successful_requests = Cardinality({p \in Procs : Returned(p)})
        /\ metrics.failed_requests = Cardinality({p \in Procs : Raised(p)})

C4_Witness ==
    /\ \A p \in Procs : Done(p)
    /\ \E p, q \in Procs : Returned(p) /\ Raised(q) /\ req[p].rid < req[q].rid
    /\ metrics.total_requests = NumCalls

\* A step of p that leaves the wait for a connection without getting one
\* fails the attempt with a transport failure or the timeout.
C5_WaiterNotFailedByLimit ==
    \A p \in Procs :
        (/\ req[p].pc = "connect"
         /\ Cardinality(inUse) >= cfg.pool_config.max_connections
         /\ req'[p] # req[p]) =>
            /\ req'[p].fails = req[p].fails + 1
            /\ \/ LastFailure(req'[p]).code = "HTTP_ERROR"
               \/ LastFailure(req'[p]).kind = "asyncio.TimeoutError"

\* C5: the connections in use never exceed max_connections, they are held by
\* the attempts awaiting a response, and an attempt that finds every slot
\* taken stays waiting: the limit itself never fails it.
C5_ConnectionsBounded ==
    /\ [](/\ Cardinality(inUse) <= cfg.pool_config.max_connections
          /\ inUse = {p \in Procs : req[p].pc = "response"})
    /\ [][C5_WaiterNotFailedByLimit]_vars

C5_Witness ==
    /\ Cardinality(inUse) = cfg.pool_config.max_connections
    /\ \E p \in Procs : req[p].pc = "connect" /\ req[p].handle \notin pool.dead

\* C6: in every state another coroutine or the caller can observe,
\* successful_requests + failed_requests = total_requests.
C6_CountsAddUp ==
    metrics.successful_requests + metrics.failed_requests = metrics.total_requests

C6_Witness ==
    /\ metrics.failed_requests = 1
    /\ metrics.total_requests = 1
    /\ \E p \in Procs : req[p].pc = "response" /\ req[p].calls = 2

\* A step in which an attempt fails before the last one puts the call to
\* sleep, whatever the failure; the step that ends a sleep makes a call.
C7_FailureThenSleepThenCall ==
    \A p \in Procs :
        /\ (req'[p].fails = req[p].fails + 1 /\ req'[p].calls <= R) =>
               req'[p].pc = "sleep"
        /\ (req[p].pc = "sleep" /\ req'[p] # req[p]) =>
               req'[p].calls = req[p].calls + 1

\* C7: every failed attempt but the last is followed by another attempt,
\* whatever its kind and whatever is_retryable_error says of it.
C7_RetriesEveryFailure ==
    [][C7_FailureThenSleepThenCall]_vars

C7_Witness ==
    \E p \in Procs :
        /\ req[p].pc = "connect"
        /\ req[p].calls = 2
        /\ req[p].last_error.kind = "ValidationError"
        /\ ~is_retryable_error(req[p].last_error)

\* C8: the error a failed request call raises is the exception object of its
\* final attempt, with the fields make_request gave it, and the failure is in
\* the metrics when it reaches the caller.
C8_FinalErrorUnchanged ==
    \A p \in Procs :
        Raised(p) =>
            /\ req[p].raised \in AttemptErrors(req[p].calls)
            /\ metrics.failed_requests >= 1
            /\ metrics.last_error # NoLastError

C8_Witness ==
    \E p \in Procs :
        /\ Raised(p)
        /\ req[p].calls = 3
        /\ req[p].raised.kind = "NotFoundError"
        /\ req[p].raised.message = "no such agent"

\* C9: after close on an active pool, acquire hands out no session: it fails
\* with a connection error.
C9_AcquireAfterCloseFails ==
    (lastOp.op = "acquire" /\ pool.closed) => lastOp.ret = NoSession

\* A session exists once acquire or initialize was called, only one is ever
\* made, and every acquire returns it.
C10_OneSession ==
    /\ pool.created <= 1
    /\ (pool.session = NoSession) <=> (pool.created = 0)
    /\ lastOp.op \in {"initialize", "acquire"} => pool.session # NoSession
    /\ lastOp.op = "acquire" => lastOp.ret = pool.session
    /\ \A p \in Procs :
           req[p].pc \in {"connect", "response"} => req[p].handle = pool.session

\* C10: initialize is idempotent and acquire initializes lazily, every acquire
\* returning the one session until close.
C10_InitializeIdempotent ==
    /\ []C10_OneSession
    /\ [][(pool.session # NoSession /\ ~pool.closed) =>
              pool'.session = pool.session]_vars

C10_Witness ==
    /\ lastOp.op = "initialize"
    /\ ~pool.closed
    /\ pool.created = 1
    /\ \E p \in Procs : req[p].pc = "connect" /\ req[p].handle = pool.session

\* C11: an attempt whose timeout elapses fails with a typed error of kind
\* timeout and is then retried like any other failure; a call whose attempts
\* all timed out raises a timeout-kind typed error.
C11_TimeoutIsTypedAndRetried ==
    \A p \in Procs :
        (req[p].cause = "timeout" /\ req[p].pc \in {"sleep", "done"}) =>
            /\ LastFailure(req[p]).kind = "TimeoutError"
            /\ LastFailure(req[p]).code = "TIMEOUT"
            /\ Done(p) => req[p].calls = R + 1

\* C12: a call made with the retry override R' runs under it and makes at most
\* R'+1 attempts whatever the client's default is, exactly one with override
\* 0; without an override the client's default applies.
C12_OverrideBoundsAttempts ==
    \A p \in Procs :
        LET limit == IF req[p].retries = NoOverride THEN R ELSE req[p].retries
        IN  /\ req[p].calls <= limit + 1
            /\ (Done(p) /\ req[p].retries = 0) => req[p].calls = 1

\* C13: for every status s >= 400 the classifier raises one typed error and
\* never returns: 400 a validation error with the body's details, 401 code
\* UNAUTHORIZED, 403 FORBIDDEN, 404 a not-found error with the body's message,
\* 429 RATE_LIMIT, s >= 500 SERVER_ERROR, any other s a generic client error
\* with the body's code, message and details; the error's status is s.
C13_ClassifierTable ==
    (call.fn \in {"_handle_error_response", "make_request"}
        /\ call.done /\ call.status >= 400) =>
        LET s == call.status
            e == call.out.error
            b == call.body.error
        IN  /\ ~call.out.ok
            /\ ~call.out.value.returned
            /\ e.kind \in {"AgentClientError", "ValidationError", "NotFoundError"}
            /\ e.status_code = s
            /\ s = 400 => /\ e.kind = "ValidationError"
                          /\ e.details = DictGet(b.details, NoDetails)
            /\ s = 401 => e.code = "UNAUTHORIZED"
            /\ s = 403 => e.code = "FORBIDDEN"
            /\ s = 404 => /\ e.kind = "NotFoundError"
                          /\ e.message = DictGet(b.message, "Unknown error")
            /\ s = 429 => e.code = "RATE_LIMIT"
            /\ s >= 500 => e.code = "SERVER_ERROR"
            /\ (s \notin {400, 401, 403, 404, 429} /\ s < 500) =>
                   /\ e.kind = "AgentClientError"
                   /\ e.code = DictGet(b.code, "UNKNOWN")
                   /\ e.message = DictGet(b.message, "Unknown error")
                   /\ e.details = DictGet(b.details, NoDetails)

C13_Witness ==
    /\ call.fn = "_handle_error_response"
    /\ call.done
    /\ call.status = 409
    /\ call.out.error.code = "E_CODE"
    /\ call.out.error.message = "boom"
    /\ call.out.error.details = "field"
    /\ call.out.error.status_code = 409

\* C14: a response with status below 400 whose body has the success flag
\* false makes the attempt fail with a generic client error whose message,
\* code and details are those of the body's error object and whose status is
\* the response's; the body is never returned as a payload.
C14_ExplicitFailureRaises ==
    (call.fn = "make_request" /\ call.done
        /\ call.status < 400 /\ call.body.success = "false") =>
        LET e == call.out.error
            b == call.body.error
        IN  /\ ~call.out.ok
            /\ ~call.out.value.returned
            /\ e.kind = "AgentClientError"
            /\ e.message = DictGet(b.message, "Unknown error")
            /\ e.code = DictGet(b.code, "UNKNOWN")
            /\ e.details = DictGet(b.details, NoDetails)
            /\ e.status_code = call.status

C14_Witness ==
    /\ call.fn = "make_request"
    /\ call.done
    /\ call.status = 201
    /\ call.body.success = "false"
    /\ call.body.data = "payload"
    /\ call.out.error.code = "E_CODE"
    /\ call.out.error.status_code = 201

C16_EndsWithPayloadOrTypedError ==
    \A p \in Procs :
        Done(p) =>
            \/ Returned(p) /\ req[p].result.returned /\ req[p].raised = NoError
            \/ Raised(p) /\ req[p].raised.kind \in ErrorClasses

C18_RatesChangeOnlyOnUpdate ==
    (metrics'.success_rate # metrics.success_rate
        \/ metrics'.error_rate # metrics.error_rate) =>
        metrics'.total_requests = metrics.total_requests + 1

\* C18 as stated: with total_requests = N > 0 the rates are the percentages
\* of the current counts, each in [0,100], and success_rate + error_rate ==
\* 100; they are recomputed on every update and never changed otherwise.
C18_RatesSumToHundred ==
    /\ [](metrics.total_requests > 0 =>
             /\ FloatWithin(metrics.success_rate, 100 * metrics.successful_requests,
                            metrics.total_requests, 40)
             /\ FloatWithin(metrics.error_rate, 100 * metrics.failed_requests,
                            metrics.total_requests, 40)
             /\ FloatLeq(metrics.success_rate, FloatFromInt(100))
             /\ FloatLeq(metrics.error_rate, FloatFromInt(100))
             /\ FloatAdd(metrics.success_rate, metrics.error_rate) = FloatFromInt(100))
    /\ [][C18_RatesChangeOnlyOnUpdate]_vars

\* C18: with total_requests = N > 0 the rates are the percentages of the
\* current counts up to floating-point rounding (within 2^-40 of
\* 100*successful/N and 100*failed/N), each in [0,100], and their sum is
\* within 2^-40 of 100; they are recomputed on every update and never changed
\* otherwise.
C18_RatesSumToHundredRounded ==
    /\ [](metrics.total_requests > 0 =>
             /\ FloatWithin(metrics.success_rate, 100 * metrics.successful_requests,
                            metrics.total_requests, 40)
             /\ FloatWithin(metrics.error_rate, 100 * metrics.failed_requests,
                            metrics.total_requests, 40)
             /\ FloatLeq(metrics.success_rate, FloatFromInt(100))
             /\ FloatLeq(metrics.error_rate, FloatFromInt(100))
             /\ FloatWithin(FloatAdd(metrics.success_rate, metrics.error_rate),
                            100, 1, 40))
    /\ [][C18_RatesChangeOnlyOnUpdate]_vars

C18_Witness ==
    /\ metrics.total_requests = 3
    /\ metrics.successful_requests = 1
    /\ metrics.failed_requests = 2
    /\ metrics.success_rate # FloatZero
    /\ FloatAdd(metrics.success_rate, metrics.error_rate) # FloatFromInt(100)

\* The step in which a request call ends by raising sets last_error to that
\* error's message; any other step leaves last_error as it is.
C19_LastErrorStep ==
    /\ \A p \in Procs :
           (~Done(p) /\ req'[p].pc = "done") =>
               IF req'[p].outcome = "raised"
               THEN metrics'.last_error = [message |-> req'[p].raised.message]
               ELSE metrics'.last_error = metrics.last_error
    /\ (\A p \in Procs : Done(p) \/ req'[p].pc # "done") =>
           metrics'.last_error = metrics.last_error

\* C19: in every interleaving metrics.last_error holds the message of the
\* request call that failed most recently: it is absent exactly as long as
\* no request has failed, each failed request overwrites it, and a successful
\* request leaves it unchanged.
C19_LastErrorIsLatestFailure ==
    /\ []((metrics.last_error = NoLastError) <=> (\A p \in Procs : ~Raised(p)))
    /\ [][C19_LastErrorStep]_vars

C19_Witness ==
    \E p, q \in Procs :
        /\ Raised(p)
        /\ Raised(q)
        /\ req[p].rid < req[q].rid
        /\ req[p].raised.message # req[q].raised.message
        /\ metrics.last_error.message = req[p].raised.message

\* A call gets its number in the step that starts it, a number above every
\* number handed out before, and keeps it through its attempts; request_id
\* moves in no other step.
C20_NumberAllocatedAtStart ==
    /\ \A p \in Procs :
           /\ (req[p].pc = "idle" /\ req'[p].pc # "idle") =>
                  /\ req'[p].rid > request_id
                  /\ \A q \in Procs \ {p} : req'[p].rid > req[q].rid
                  /\ request_id' = req'[p].rid
           /\ req[p].pc # "idle" => req'[p].rid = req[p].rid
    /\ (request_id' # request_id) =>
           \E p \in Procs : req[p].pc = "idle" /\ req'[p].pc # "idle"

\* C20: every request call gets a sequence number strictly greater than the
\* number of every request that obtained its number earlier, so no two calls
\* share a number in any interleaving; the number is allocated once per
\* top-level call, not once per retry attempt.
C20_SequenceNumbersUnique ==
    /\ [](\A p, q \in Procs :
             /\ req[p].pc # "idle" => req[p].rid \in 1..request_id
             /\ (p # q /\ req[p].pc # "idle" /\ req[q].pc # "idle") =>
                    req[p].rid # req[q].rid)
    /\ [][C20_NumberAllocatedAtStart]_vars

C20_Witness ==
    \E p, q \in Procs :
        /\ req[p].rid = 1
        /\ req[p].calls = 2
        /\ req[p].pc = "response"
        /\ req[q].rid = 2
        /\ req[q].pc = "connect"
        /\ request_id = 2

\* C21: constructing a client with an empty base URL, a base URL that does
\* not begin with http:// or https://, or an empty credential raises a
\* validation error before any pool is created; for an accepted base URL the
\* stored base URL is the input with its trailing slash stripped.
C21_InvalidConfigRejected ==
    (call.fn = "__init__" /\ call.done) =>
        LET url == call.api_url
            stored == call.out.api_url
            bad == \/ url = <<>>
                   \/ ~(StartsWith(url, StrHttpScheme) \/ StartsWith(url, StrHttpsScheme))
                   \/ call.api_key = <<>>
        IN  /\ bad => /\ call.out.raised
                      /\ call.out.error.kind = "ValidationError"
                      /\ ~call.out.pool_created
            /\ ~bad => /\ ~call.out.raised
                       /\ call.out.pool_created
                       /\ StartsWith(url, stored)
                       /\ stored[Len(stored)] # "/"
                       /\ \A i \in (Len(stored) + 1)..Len(url) : url[i] = "/"

\* Once the pool is closed, a step keeps it closed, keeps its closed session
\* and constructs no session.
C22_ClosedStaysClosed ==
    pool.closed =>
        /\ pool'.closed
        /\ pool'.created = pool.created
        /\ pool'.session = pool.session
        /\ pool'.dead = pool.dead

\* C22: the pool's closed state is terminal: once close has taken effect on
\* an active pool, no later initialize, acquire or close (or request) creates
\* a new transport session or brings the pool back to the active state.
C22_ClosedIsTerminal ==
    /\ [](pool.closed => pool.session \in pool.dead /\ pool.created = 1)
    /\ [][C22_ClosedStaysClosed]_vars

C22_Witness ==
    /\ pool.closed
    /\ lastOp.op = "initialize"
    /\ pool.session \in pool.dead
    /\ \E p \in Procs : Raised(p) /\ req[p].cause = "closed"

\* The callback has been called once per failed attempt but the last, the
\* i-th time with (i, calculate_delay(i, ...), the i-th attempt's failure),
\* before the sleep that attempt i+1 waits for.
C23_CallbackPerRetry ==
    call.fn = "retry" =>
        LET f == call.frame
            c == call.config
            n == Len(f.observed)
        IN  /\ f.sleeps <= c.max_retries
            /\ n = (IF f.on_retry THEN f.sleeps ELSE 0)
            /\ \A i \in 1..n :
                   /\ f.observed[i].attempt = i
                   /\ f.observed[i].delay =
                          calculate_delay(i, c.initial_delay, c.max_delay,
                                          c.mult_num, c.mult_den)
                   /\ f.observed[i].error.att = i
            /\ f.pc = "sleep" =>
                   /\ f.calls = f.sleeps
                   /\ f.on_retry => f.delay = f.observed[n].delay
                                    /\ f.last_error = f.observed[n].error
            /\ f.pc = "call" => f.calls = f.sleeps + 1
            /\ (f.pc = "done" /\ f.outcome = "raised") =>
                   /\ f.sleeps = c.max_retries
                   /\ f.calls = c.max_retries + 1
                   /\ f.raised.att = c.max_retries + 1

\* C23: after the i-th failed attempt with i <= max_retries, retry() computes
\* calculate_delay(i, ...), calls the callback once with (i, the delay, the
\* failure), sleeps for that delay and only then starts attempt i+1; after
\* the final failed attempt there is no callback and no sleep, so an
\* always-failing operation gives max_retries callbacks, numbered in order.
C23_RetryStepsInOrder ==
    /\ []C23_CallbackPerRetry
    /\ [][call.fn = "retry" =>
              /\ (call.frame.pc = "sleep" /\ call'.frame # call.frame) =>
                     /\ call'.frame.slept = call.frame.slept + call.frame.delay
                     /\ call'.frame.calls = call.frame.calls + 1
                     /\ call'.frame.observed = call.frame.observed
              /\ call.frame.pc = "done" => call'.frame = call.frame]_vars

C23_Witness ==
    /\ call.fn = "retry"
    /\ call.frame.on_retry
    /\ call.frame.pc = "done"
    /\ call.frame.outcome = "raised"
    /\ call.config.max_retries = 2
    /\ call.config.initial_delay = 50
    /\ Len(call.frame.observed) = 2
    /\ call.frame.observed[2].delay = 100
    /\ call.frame.observed[1].error.kind = "ValueError"
    /\ call.frame.slept = 150

\* A connection is in use by exactly the calls whose attempt is inside its
\* `async with session.request(...)` block.
C24_HeldOnlyInsideAttempt ==
    inUse = {p \in Procs : req[p].pc = "response"}

\* C24: every attempt gives its connection back when it ends, whatever it
\* ends with (payload, HTTP error status, application-level error, transport
\* failure, timeout), and holds none during the backoff sleep; when no attempt
\* is in progress no connection is in use.
C24_AttemptReleasesConnection ==
    /\ []C24_HeldOnlyInsideAttempt
    /\ []((\A p \in Procs : req[p].pc \in {"idle", "sleep", "done"}) => inUse = {})
    /\ [][\A p \in Procs :
              (req[p].pc = "response" /\ req'[p].pc # "response") =>
                  /\ p \in inUse
                  /\ p \notin inUse'
                  /\ req'[p].cause \in {"response", "timeout", "transport", "body"}]_vars

C24_Witness ==
    /\ req[1].pc = "sleep"
    /\ req[1].cause = "response"
    /\ req[1].calls = 2
    /\ req[1].fails = 2
    /\ req[1].last_error.status_code = 409
    /\ inUse = {}

\* The deadline the caller asked for: the timeout passed, the default when
\* none is passed.
C25_Deadline ==
    IF call.timeout = NoTimeout THEN max_poll_wait ELSE call.timeout

\* C25: wait_for_completion returns only a task whose status is COMPLETED,
\* FAILED, CANCELLED or TIMED_OUT, and when a get has shown the task
\* unfinished with more time elapsed than the timeout the caller passed (the
\* default only when none was passed), it raises a timeout error instead of
\* polling again.
C25_DeadlineIsCallersTimeout ==
    call.fn = "wait_for_completion" =>
        /\ (call.pc = "done" /\ call.outcome = "returned") =>
               call.status \in TerminalStatuses
        /\ call.pc = "sleep" => call.elapsed <= C25_Deadline
        /\ (call.pc = "done" /\ call.error.kind = "TimeoutError") =>
               /\ call.status \notin TerminalStatuses
               /\ call.elapsed > C25_Deadline

\* The calls whose attempt holds a session obtained from the pool.
C26_InFlight ==
    {p \in Procs : req[p].pc \in {"connect", "response"}}

\* C26: under concurrent first use of an uninitialized pool (request,
\* initialize and acquire calls interleaved at their suspension points) the
\* pool constructs at most one session, only while it has none, and all
\* concurrent callers hold that same session.
C26_FirstUseSharesSession ==
    /\ [](\A p, q \in C26_InFlight :
              /\ req[p].handle # NoSession
              /\ req[p].handle = req[q].handle)
    /\ [](lastOp.op = "acquire" =>
              \A p \in C26_InFlight : req[p].handle = lastOp.ret)
    /\ [][pool'.created # pool.created =>
              /\ pool.session = NoSession
              /\ pool.created = 0
              /\ pool'.created = 1
              /\ pool'.session # NoSession]_vars

C26_Witness ==
    /\ C26_InFlight = Procs
    /\ lastOp.op = "acquire"
    /\ lastOp.ret = req[1].handle
    /\ req[1].handle = req[2].handle
    /\ req[1].calls = 1
    /\ req[2].calls = 1
    /\ pool.created = 1
    /\ ~pool.closed

\* A pool that never had a session is as constructed: no session, not closed.
C27_UnusedPoolIsFresh ==
    pool.created = 0 => pool = NewPool

\* C27: close on a never-initialized pool changes nothing: the session stays
\* absent and the pool is not marked closed, so a later acquire or request
\* initializes it and obtains a usable session.
C27_CloseBeforeUseIsNoop ==
    /\ []C27_UnusedPoolIsFresh
    /\ [][(lastOp.op = "close" /\ pool.created = 0 /\ pool' # pool) =>
              /\ pool'.created = 1
              /\ pool'.session # NoSession
              /\ pool'.session \notin pool'.dead
              /\ ~pool'.closed
              /\ \/ lastOp'.op = "initialize"
                 \/ lastOp'.op = "acquire" /\ lastOp'.ret = pool'.session
                 \/ \E p \in Procs : /\ req[p].pc = "idle"
                                      /\ req'[p].pc = "connect"
                                      /\ req'[p].handle = pool'.session]_vars

C27_Witness ==
    /\ lastOp.op = "close"
    /\ ~pool.closed
    /\ pool.dead = {}
    /\ pool.created = 1
    /\ \E p \in Procs : /\ req[p].pc = "response"
                         /\ req[p].handle = pool.session
                         /\ p \in inUse

\* A step adds to the error counter what it adds to the failed counter, and
\* takes nothing from any of the four counters.
C28_CountersStep ==
    /\ metrics'.total_errors - metrics.total_errors =
           metrics'.failed_requests - metrics.failed_requests
    /\ metrics'.failed_requests - metrics.failed_requests \in {0, 1}
    /\ metrics'.total_requests >= metrics.total_requests
    /\ metrics'.successful_requests >= metrics.successful_requests
    /\ metrics'.failed_requests >= metrics.failed_requests
    /\ metrics'.total_errors >= metrics.total_errors

\* C28: in every reachable state total_errors equals failed_requests, the
\* error counter is incremented exactly when the failed counter is, and no
\* operation decrements total_requests, successful_requests, failed_requests
\* or total_errors.
C28_ErrorsEqualFailed ==
    /\ [](metrics.total_errors = metrics.failed_requests)
    /\ [][C28_CountersStep]_vars

C28_Witness ==
    /\ metrics.total_requests = 2
    /\ metrics.total_errors = 1
    /\ metrics.failed_requests = 1
    /\ metrics.successful_requests = 1
    /\ \A p \in Procs : req[p].pc = "done"

====
